---- MODULE Spec2Model ----
(***************************************************************************)
(* tuber: a front end to yt-dlp and the claude CLI.                        *)
(*                                                                         *)
(* The repository holds two near-duplicate programs: the multi-select     *)
(* program (src/unnamed/part_000) and the older single-select program     *)
(* (src/main.go).  Go strings are modelled as TLA+ strings (sequences of  *)
(* characters; the inputs are ASCII, so byte length = character count).    *)
(*                                                                         *)
(* Specifications:                                                         *)
(*   NormSpec  the subtitle normalizer (extractText, dedupeVTT) applied to *)
(*             bounded caption files;                                      *)
(*   SanSpec   sanitizeFilename applied to bounded strings;                *)
(*   Spec      the multi-select program: main, the interactive selector,   *)
(*             runDownload and the spinner-driven step orchestrator.       *)
(***************************************************************************)
EXTENDS Integers, Sequences, FiniteSets, TLC

VARIABLES
    \* ---- NormSpec: one caption file and what the normalizer made of it
    vttFile,      \* [readable, content]: the .vtt file handed to the normalizer
    txtWritable,  \* whether os.WriteFile on the .txt path succeeds
    normPc,       \* "idle" | "input" | "extracted" | "reextracted" | "written"
    transcript,   \* result of extractText(vttPath): [text, err]
    again,        \* result of extractText on a file holding transcript.text
    txtFile,      \* result of dedupeVTT: [err, written, content]
    \* ---- SanSpec
    sanPc,        \* "idle" | "input" | "done"
    sanIn,        \* argument of sanitizeFilename
    sanOut,       \* its result
    \* ---- Spec: the multi-select program
    path,         \* [ytdlp, claude]: which tools exec.LookPath finds
    args,         \* the command line: [v, a, s, sum, p, o, url]
    mainPc,       \* where main is: "idle", "start", "selector", "selectorQuit",
                  \* "runDownload", "spinner", "spinnerQuit", "summaryFetch",
                  \* "summaryClaude", "exited"
    exitCode,     \* the process exit status, -1 while running
    reported,     \* the error text main printed before exiting, "" if none
    claudeAvailable, outputDir, customOutPath,   \* the package-level variables
    url, opts,    \* main's url and DownloadOptions
    m,            \* the selector's model (type model)
    titleCmd,     \* whether a fetchTitle command is running
    pickOrder,    \* history: the checked choices in the order they were checked
    dm,           \* the spinner program's model (type downloadModel)
    startMsg,     \* whether the startDownloadMsg is still to be delivered
    inflight,     \* the step whose external invocation is running, or "none"
    doneMsg,      \* the downloadDoneMsg waiting for Update: its err, or "none"
    calls,        \* history: the external invocations started so far, in order
    tmpDir,       \* the summary flow's scratch directory: "none" | "created" | "removed"
    subsDir,      \* the directory processSubtitles was last called with, "" if none
    \* ---- FsSpec: the subtitle step on a directory of files
    fsDir,        \* the directory: name -> [exists, readable, writable, content]
    fsBefore,     \* history: the directory as it was before the step started
    fsProduced,   \* history: the names the fetch tool wrote in this run
    fsPc,         \* "idle" | "fetch" | "readdir" | "loop" | "done"
    fsEntries,    \* the names os.ReadDir returned, in its (sorted) order
    fsIdx,        \* the entry the loop of processSubtitles is at (1-based)
    fsLog,        \* the warnings printed so far
    fsErr         \* what doDownloadSubs returned: "none" while running, else its err

normVars == <<vttFile, txtWritable, normPc, transcript, again, txtFile>>
sanVars == <<sanPc, sanIn, sanOut>>
progVars ==
    <<path, args, mainPc, exitCode, reported, claudeAvailable, outputDir, customOutPath,
      url, opts, m, titleCmd, pickOrder, dm, startMsg, inflight, doneMsg, calls, tmpDir,
      subsDir>>
fsVars == <<fsDir, fsBefore, fsProduced, fsPc, fsEntries, fsIdx, fsLog, fsErr>>
vars == <<normVars, sanVars, progVars, fsVars>>

(***************************************************************************)
(* Bounds of the model.                                                    *)
(***************************************************************************)
NormMaxLines == 2   \* caption files of up to this many vocabulary lines
NormMaxChars == 3   \* caption files of up to this many alphabet characters
NormMaxCues == 3    \* caption files of up to this many repeated cue blocks
SanMaxLen == 3      \* sanitizeFilename arguments of up to this many characters
MaxUrlLen == 1      \* the operator types a URL of up to this many characters
SpinnerFrames == 2  \* frames of the spinner the model tells apart
MaxEditLen == 3     \* the operator types into an edit buffer shorter than this

(***************************************************************************)
(* Go's strings package, as far as the program uses it.                    *)
(***************************************************************************)
Ch(s, i) == SubSeq(s, i, i)

\* unicode.IsSpace restricted to the ASCII white space TLA+ can write
IsSpace(c) == c \in {" ", "\t", "\n", "\r", "\f"}

\* TLC evaluates operator arguments on demand; a loop that hands its state to
\* the next iteration tests Evaluated(state) first, so that the iterations are
\* evaluated in program order (and the evaluation stays shallow).
Evaluated(v) == v = v

\* strings.TrimSpace
TrimSpace(s) ==
    LET keep == {i \in 1..Len(s) : ~IsSpace(Ch(s, i))}
        first == CHOOSE i \in keep : \A j \in keep : i <= j
        last == CHOOSE i \in keep : \A j \in keep : j <= i
    IN IF keep = {} THEN "" ELSE SubSeq(s, first, last)

\* strings.HasPrefix
HasPrefix(s, prefix) ==
    Len(s) >= Len(prefix) /\ SubSeq(s, 1, Len(prefix)) = prefix

\* strings.HasSuffix
HasSuffix(s, suffix) ==
    Len(s) >= Len(suffix) /\ SubSeq(s, Len(s) - Len(suffix) + 1, Len(s)) = suffix

\* strings.Contains
Contains(s, substr) ==
    \E i \in 1..(Len(s) - Len(substr) + 1) : SubSeq(s, i, i + Len(substr) - 1) = substr

\* strings.Split(s, sep) for a one-character sep: the pieces between the
\* separators, in order (each found by the next index of sep, as genSplit
\* does); Split("", sep) is the one-element list [""].
RECURSIVE SplitFrom(_, _, _)
SplitFrom(s, sep, start) ==
    LET found == {i \in start..Len(s) : Ch(s, i) = sep}
        at == CHOOSE i \in found : \A j \in found : i <= j
    IN IF found = {} THEN <<SubSeq(s, start, Len(s))>>
       ELSE <<SubSeq(s, start, at - 1)>> \o SplitFrom(s, sep, at + 1)

Split(s, sep) == SplitFrom(s, sep, 1)

\* strings.Join
RECURSIVE Join(_, _)
Join(elems, sep) ==
    IF Len(elems) = 0 THEN ""
    ELSE IF Len(elems) = 1 THEN elems[1]
    ELSE elems[1] \o sep \o Join(Tail(elems), sep)

(***************************************************************************)
(* The subtitle normalizer.                                                *)
(***************************************************************************)
\* the runes of the model's inputs that take two bytes in UTF-8 (all others
\* are ASCII)
TwoByteRunes == {"é"}

\* len(s): the number of bytes of a Go string
ByteLen(s) == Len(s) + Cardinality({i \in 1..Len(s) : Ch(s, i) \in TwoByteRunes})

\* a timestamp test that counts runes instead of bytes
isTimestamp_RuneCount(line) ==
    /\ Contains(line, ":")
    /\ (Contains(line, ".") \/ Contains(line, ","))
    /\ Len(line) < 30

\* isTimestamp: a colon, and a period or a comma, and fewer than 30 bytes
isTimestamp(line) ==
    /\ Contains(line, ":")
    /\ (Contains(line, ".") \/ Contains(line, ","))
    /\ ByteLen(line) < 30

\* one iteration of the rune loop of stripTags; st = [inTag, result]
stripTagsStep(r, st) ==
    IF r = "<" THEN [inTag |-> TRUE, result |-> st.result]
    ELSE IF r = ">" THEN [inTag |-> FALSE, result |-> st.result]
    ELSE IF ~st.inTag THEN [inTag |-> st.inTag, result |-> st.result \o r]
    ELSE st

\* the rune loop over s[lo..hi] from state st: the iterations run in order,
\* grouped in halves so that the evaluation stays shallow
RECURSIVE stripTagsLoop(_, _, _, _)
stripTagsLoop(s, lo, hi, st) ==
    IF lo > hi THEN st
    ELSE IF lo = hi THEN stripTagsStep(Ch(s, lo), st)
    ELSE LET mid == (lo + hi) \div 2
             first == stripTagsLoop(s, lo, mid, st)
         IN IF Evaluated(first) THEN stripTagsLoop(s, mid + 1, hi, first) ELSE st

stripTags(s) == stripTagsLoop(s, 1, Len(s), [inTag |-> FALSE, result |-> ""]).result

\* the condition of the `continue` that skips VTT header, timestamps and
\* empty lines (the same expression in extractText and in dedupeVTT)
SkipLine(line) ==
    \/ line = ""
    \/ line = "WEBVTT"
    \/ line = "Kind: captions"
    \/ HasPrefix(line, "Language:")
    \/ Contains(line, "-->")
    \/ HasPrefix(line, "NOTE")
    \/ isTimestamp(line)

\* a loop body that forgot the seen map: every cleaned line is appended
extractTextStep_NoDedupe(raw, st) ==
    LET line == TrimSpace(raw)
        stripped == TrimSpace(stripTags(line))
    IN IF SkipLine(line) THEN st
       ELSE IF stripped = "" THEN st
       ELSE [seen |-> st.seen \cup {stripped},
             textLines |-> Append(st.textLines, stripped)]

\* one iteration of the `for _, line := range lines` loop of extractText;
\* st = [seen, textLines]: the map of lines already kept and the kept lines
extractTextStep(raw, st) ==
    LET line == TrimSpace(raw)
        stripped == TrimSpace(stripTags(line))
    IN IF SkipLine(line) THEN st
       ELSE IF stripped = "" THEN st
       ELSE IF stripped \notin st.seen
            THEN [seen |-> st.seen \cup {stripped},
                  textLines |-> Append(st.textLines, stripped)]
            ELSE st

\* the loop over lines[lo..hi] from state st, iterations in order
RECURSIVE extractTextLoop(_, _, _, _)
extractTextLoop(lines, lo, hi, st) ==
    IF lo > hi THEN st
    ELSE IF lo = hi THEN extractTextStep(lines[lo], st)
    ELSE LET mid == (lo + hi) \div 2
             first == extractTextLoop(lines, lo, mid, st)
         IN IF Evaluated(first) THEN extractTextLoop(lines, mid + 1, hi, first) ELSE st

\* an extractText that reports a file without content as a failure
extractText_EmptyIsError(file) ==
    IF ~file.readable \/ file.content = "" THEN [text |-> "", err |-> "ReadFile"]
    ELSE LET lines == Split(file.content, "\n")
             textLines == extractTextLoop(lines, 1, Len(lines),
                                          [seen |-> {}, textLines |-> <<>>]).textLines
         IN [text |-> Join(textLines, "\n"), err |-> "nil"]

\* extractText(vttPath): (transcript, error)
extractText(file) ==
    IF ~file.readable THEN [text |-> "", err |-> "ReadFile"]
    ELSE LET lines == Split(file.content, "\n")
             textLines == extractTextLoop(lines, 1, Len(lines),
                                          [seen |-> {}, textLines |-> <<>>]).textLines
         IN [text |-> Join(textLines, "\n"), err |-> "nil"]

\* the loop body with each new line put before the lines already kept
dedupeVTTStep_Prepend(raw, st) ==
    LET line == TrimSpace(raw)
        stripped == TrimSpace(stripTags(line))
    IN IF SkipLine(line) THEN st
       ELSE IF stripped = "" THEN st
       ELSE IF stripped \notin st.seen
            THEN [seen |-> st.seen \cup {stripped},
                  textLines |-> <<stripped>> \o st.textLines]
            ELSE st

\* the same loop body, as dedupeVTT repeats it
dedupeVTTStep(raw, st) ==
    LET line == TrimSpace(raw)
        stripped == TrimSpace(stripTags(line))
    IN IF SkipLine(line) THEN st
       ELSE IF stripped = "" THEN st
       ELSE IF stripped \notin st.seen
            THEN [seen |-> st.seen \cup {stripped},
                  textLines |-> Append(st.textLines, stripped)]
            ELSE st

RECURSIVE dedupeVTTLoop(_, _, _, _)
dedupeVTTLoop(lines, lo, hi, st) ==
    IF lo > hi THEN st
    ELSE IF lo = hi THEN dedupeVTTStep(lines[lo], st)
    ELSE LET mid == (lo + hi) \div 2
             first == dedupeVTTLoop(lines, lo, mid, st)
         IN IF Evaluated(first) THEN dedupeVTTLoop(lines, mid + 1, hi, first) ELSE st

\* dedupeVTT(vttPath, txtPath): the error returned, whether the .txt was
\* written, and what was written
dedupeVTT(file, writable) ==
    IF ~file.readable THEN [err |-> "ReadFile", written |-> FALSE, content |-> ""]
    ELSE LET lines == Split(file.content, "\n")
             textLines == dedupeVTTLoop(lines, 1, Len(lines),
                                        [seen |-> {}, textLines |-> <<>>]).textLines
             output == Join(textLines, "\n")
         IN IF writable THEN [err |-> "nil", written |-> TRUE, content |-> output]
            ELSE [err |-> "WriteFile", written |-> FALSE, content |-> ""]

(***************************************************************************)
(* The output path resolver's sanitizer.                                   *)
(***************************************************************************)
\* the old/new pairs handed to strings.NewReplacer, in argument order
sanitizePairs ==
    << <<"/", "-">>, <<"\\", "-">>, <<":", "-">>, <<"*", "">>, <<"?", "">>,
       <<"\"", "">>, <<"<", "">>, <<">", "">>, <<"|", "">> >>

\* (*strings.Replacer).Replace: at each position the first pair, in argument
\* order, whose old string matches there is applied and the scan continues
\* after the match; replacements are not rescanned.
RECURSIVE ReplacerReplace(_, _, _, _)
ReplacerReplace(pairs, s, i, out) ==
    IF i > Len(s) THEN out
    ELSE LET hits == {k \in 1..Len(pairs) :
                        SubSeq(s, i, i + Len(pairs[k][1]) - 1) = pairs[k][1]}
             k == CHOOSE h \in hits : \A g \in hits : h <= g
         IN IF hits = {}
            THEN ReplacerReplace(pairs, s, i + 1, out \o Ch(s, i))
            ELSE ReplacerReplace(pairs, s, i + Len(pairs[k][1]), out \o pairs[k][2])

\* a sanitizer whose table lost its last pair ("|" is passed through)
sanitizeFilename_NoPipe(s) ==
    ReplacerReplace(SubSeq(sanitizePairs, 1, Len(sanitizePairs) - 1), s, 1, "")

sanitizeFilename(s) == ReplacerReplace(sanitizePairs, s, 1, "")

(***************************************************************************)
(* Bounded inputs.                                                         *)
(***************************************************************************)
\* all strings of at most n characters of the alphabet
RECURSIVE StringsUpTo(_, _)
StringsUpTo(alphabet, n) ==
    IF n = 0 THEN {""}
    ELSE LET shorter == StringsUpTo(alphabet, n - 1)
         IN shorter \cup {s \o c : s \in shorter, c \in alphabet}

RECURSIVE Repeat(_, _)
Repeat(s, n) == IF n = 0 THEN "" ELSE s \o Repeat(s, n - 1)

\* lines a caption file is made of: header and metadata lines, cue timing
\* lines, cue text with and without inline timing tags, CRLF line ends
NormVocab ==
    { "", "WEBVTT", "Kind: captions", "Language: en", "NOTE made by hand",
      "00:00:00.000 --> 00:00:03.000 align:start position:0%",
      "<00:00:01.000><c> hello</c>", "<00:00:02.000><c> world</c>",
      "hello", "world", "  hello \r", "Hello",
      "<c>WEBVTT</c>", "<c></c>", "4:30, right?",
      "<00:00:01.000><c> It is 4:30.</c>",
      "so today we talk<00:00:01.000><c> about</c><00:00:01.400><c> tubers</c>",
      "a <b>bold</b> claim <unclosed", "Olé: café, café, café, café." }

NormAlphabet == {"a", "<", ">", " ", "\n", ":", "."}

\* one cue: a timing line, its text lines, a blank line
CueBlocks ==
    { "00:00:00.000 --> 00:00:03.000\n<00:00:01.000><c> hello</c>\n<00:00:02.000><c> world</c>\n\n",
      "00:00:00.000 --> 00:00:03.000 align:start position:0%\nso today we talk<00:00:01.000><c> about</c><00:00:01.400><c> tubers</c>\nso today we talk about tubers\n\n",
      "00:00:03.000 --> 00:00:06.000\nhello\nworld\n\n" }

NormInputs ==
    {Join(ls, "\n") : ls \in UNION {[1..n -> NormVocab] : n \in 0..NormMaxLines}}
    \cup StringsUpTo(NormAlphabet, NormMaxChars)
    \cup {head \o Repeat(block, n) :
            head \in {"", "WEBVTT\nKind: captions\nLanguage: en\n\n"},
            block \in CueBlocks, n \in 0..NormMaxCues}

SanAlphabet == {"/", "\\", ":", "*", "?", "\"", "<", ">", "|", "a", "-", " "}

SanInputs == StringsUpTo(SanAlphabet, SanMaxLen)

(***************************************************************************)
(* The multi-select program: its data.                                     *)
(***************************************************************************)
defaultPrompt ==
    "Summarize this transcript of a YouTube video. Provide a concise summary of the main points and key takeaways."

\* len(m.choices): Video, Audio, Subtitles, Summary
NumChoices == 4

NoOptions ==
    [Video |-> FALSE, Audio |-> FALSE, Subs |-> FALSE, Summary |-> FALSE, Prompt |-> ""]

\* the zero value of type model (no selector has been built)
NoModel ==
    [url |-> "", cursor |-> 0, checked |-> [i \in 0..(NumChoices - 1) |-> FALSE],
     done |-> FALSE, quitting |-> FALSE, title |-> "", outPath |-> "",
     editing |-> FALSE, editBuf |-> "", state |-> "none", editingField |-> "",
     prompt |-> ""]

\* the zero value of type downloadModel (no spinner program has been built)
NoDownloadModel ==
    [status |-> "", done |-> FALSE, err |-> "nil", steps |-> <<>>, step |-> 0, frame |-> 0]

ProgIdle ==
    /\ path = [ytdlp |-> TRUE, claude |-> TRUE]
    /\ args = [v |-> FALSE, a |-> FALSE, s |-> FALSE, sum |-> FALSE,
               p |-> "", o |-> "", url |-> ""]
    /\ mainPc = "idle"
    /\ exitCode = -1
    /\ reported = ""
    /\ claudeAvailable = FALSE
    /\ outputDir = ""
    /\ customOutPath = ""
    /\ url = ""
    /\ opts = NoOptions
    /\ m = NoModel
    /\ titleCmd = FALSE
    /\ pickOrder = <<>>
    /\ dm = NoDownloadModel
    /\ startMsg = FALSE
    /\ inflight = "none"
    /\ doneMsg = "none"
    /\ calls = <<>>
    /\ tmpDir = "none"
    /\ subsDir = ""

(***************************************************************************)
(* NormSpec: the normalizer applied to one caption file.                   *)
(***************************************************************************)
NoResult == [text |-> "", err |-> "none"]
NoTxt == [err |-> "none", written |-> FALSE, content |-> ""]

NormIdle ==
    /\ vttFile = [readable |-> TRUE, content |-> ""]
    /\ txtWritable = TRUE
    /\ normPc = "idle"
    /\ transcript = NoResult
    /\ again = NoResult
    /\ txtFile = NoTxt

SanIdle ==
    /\ sanPc = "idle"
    /\ sanIn = ""
    /\ sanOut = ""

\* names of the files the subtitle step can meet in its directory
FsNames == {"a.vtt", "b.vtt", "a.txt", "b.txt"}

\* a name with no file behind it (whether creating it would succeed is kept)
NoFile(w) == [exists |-> FALSE, readable |-> FALSE, writable |-> w, content |-> ""]

FsIdle ==
    /\ fsDir = [n \in FsNames |-> NoFile(TRUE)]
    /\ fsBefore = [n \in FsNames |-> NoFile(TRUE)]
    /\ fsProduced = {}
    /\ fsPc = "idle"
    /\ fsEntries = <<>>
    /\ fsIdx = 0
    /\ fsLog = <<>>
    /\ fsErr = "none"

NormInit ==
    /\ vttFile \in [readable : BOOLEAN, content : NormInputs]
    /\ txtWritable \in BOOLEAN
    /\ normPc = "input"
    /\ transcript = NoResult
    /\ again = NoResult
    /\ txtFile = NoTxt
    /\ SanIdle
    /\ ProgIdle
    /\ FsIdle

\* transcript, err := extractText(vttPath)
NormExtractText ==
    /\ normPc = "input"
    /\ transcript' = extractText(vttFile)
    /\ normPc' = "extracted"
    /\ UNCHANGED <<vttFile, txtWritable, again, txtFile, sanVars, progVars, fsVars>>

\* the transcript is stored and handed to extractText once more
NormExtractAgain ==
    /\ normPc = "extracted"
    /\ transcript.err = "nil"
    /\ again' = extractText([readable |-> TRUE, content |-> transcript.text])
    /\ normPc' = "reextracted"
    /\ UNCHANGED <<vttFile, txtWritable, transcript, txtFile, sanVars, progVars, fsVars>>

\* err := dedupeVTT(vttPath, txtPath)
NormDedupeVTT ==
    /\ normPc = "input"
    /\ txtFile' = dedupeVTT(vttFile, txtWritable)
    /\ normPc' = "written"
    /\ UNCHANGED <<vttFile, txtWritable, transcript, again, sanVars, progVars, fsVars>>

NormNext == NormExtractText \/ NormExtractAgain \/ NormDedupeVTT

NormSpec == NormInit /\ [][NormNext]_vars

(***************************************************************************)
(* SanSpec: sanitizeFilename applied to one string.                        *)
(***************************************************************************)
SanInit ==
    /\ sanPc = "input"
    /\ sanIn \in SanInputs
    /\ sanOut = ""
    /\ NormIdle
    /\ ProgIdle
    /\ FsIdle

SanSanitize ==
    /\ sanPc = "input"
    /\ sanOut' = sanitizeFilename(sanIn)
    /\ sanPc' = "done"
    /\ UNCHANGED <<sanIn, normVars, progVars, fsVars>>

SanNext == SanSanitize

SanSpec == SanInit /\ [][SanNext]_vars

(***************************************************************************)
(* The multi-select program: the interactive selector.                     *)
(*                                                                         *)
(* A Bubble Tea program handles one message at a time; a command a handler *)
(* returns runs on its own and its result comes back as a message.         *)
(* tea.Quit is taken to end the program with the Update that returns it.   *)
(***************************************************************************)
\* command lines: -p is only given together with -sum
ArgSets ==
    {c \in [v : BOOLEAN, a : BOOLEAN, s : BOOLEAN, sum : BOOLEAN,
            p : {"", "List key points"}, o : {"", "out"}, url : {"", "u"}] :
        c.p # "" => c.sum}

\* what `yt-dlp --get-title` prints when it succeeds
TitleOutputs == {"Tubers 101\n", "a/b: c?\n"}

\* runes the operator types into the URL field
UrlRunes == {"u"}

\* dir := "."; if outputDir != "" { dir = outputDir }
DirOrDot(od) == IF od # "" THEN od ELSE "."

initialModel(u, od) ==
    [url |-> u, cursor |-> 0, checked |-> [i \in 0..(NumChoices - 1) |-> FALSE],
     done |-> FALSE, quitting |-> FALSE, title |-> "",
     outPath |-> DirOrDot(od) \o "/video",
     editing |-> FALSE, editBuf |-> "",
     state |-> IF u # "" THEN "stateLoading" ELSE "stateURLInput",
     editingField |-> "", prompt |-> defaultPrompt]

getOptions(mm) ==
    [Video |-> mm.checked[0], Audio |-> mm.checked[1], Subs |-> mm.checked[2],
     Summary |-> mm.checked[3], Prompt |-> mm.prompt]

\* what every selector handler leaves alone
SelectorFrame ==
    UNCHANGED <<normVars, sanVars, fsVars, path, args, exitCode, reported, claudeAvailable,
                outputDir, customOutPath, url, opts, dm, startMsg, inflight, doneMsg,
                tmpDir, subsDir>>

\* case titleMsg
UpdateTitleMsg ==
    /\ mainPc = "selector"
    /\ titleCmd
    /\ \E out \in TitleOutputs :
         m' = [m EXCEPT !.title = TrimSpace(out),
                        !.outPath = DirOrDot(outputDir) \o "/"
                                      \o sanitizeFilename(TrimSpace(out)),
                        !.state = "stateMenu"]
    /\ titleCmd' = FALSE
    /\ UNCHANGED <<mainPc, pickOrder, calls>>
    /\ SelectorFrame

\* case errMsg: the fallback outPath is kept
UpdateErrMsg ==
    /\ mainPc = "selector"
    /\ titleCmd
    /\ m' = [m EXCEPT !.state = "stateMenu"]
    /\ titleCmd' = FALSE
    /\ UNCHANGED <<mainPc, pickOrder, calls>>
    /\ SelectorFrame

\* ---- case tea.KeyMsg, m.state == stateURLInput
UrlKeyCtrlC ==
    /\ mainPc = "selector"
    /\ m.state = "stateURLInput"
    /\ m' = [m EXCEPT !.quitting = TRUE]
    /\ mainPc' = "selectorQuit"
    /\ UNCHANGED <<titleCmd, pickOrder, calls>>
    /\ SelectorFrame

\* enter with a non-empty url: the title fetch starts
UrlKeyEnter ==
    /\ mainPc = "selector"
    /\ m.state = "stateURLInput"
    /\ m.url # ""
    /\ m' = [m EXCEPT !.state = "stateLoading"]
    /\ titleCmd' = TRUE
    /\ calls' = Append(calls, "title")
    /\ UNCHANGED <<mainPc, pickOrder>>
    /\ SelectorFrame

UrlKeyBackspace ==
    /\ mainPc = "selector"
    /\ m.state = "stateURLInput"
    /\ Len(m.url) > 0
    /\ m' = [m EXCEPT !.url = SubSeq(m.url, 1, Len(m.url) - 1)]
    /\ UNCHANGED <<mainPc, titleCmd, pickOrder, calls>>
    /\ SelectorFrame

UrlKeyRunes ==
    /\ mainPc = "selector"
    /\ m.state = "stateURLInput"
    /\ Len(m.url) < MaxUrlLen
    /\ \E r \in UrlRunes : m' = [m EXCEPT !.url = m.url \o r]
    /\ UNCHANGED <<mainPc, titleCmd, pickOrder, calls>>
    /\ SelectorFrame

\* ---- case tea.KeyMsg, m.editing
EditKeyEnter ==
    /\ mainPc = "selector"
    /\ m.state # "stateURLInput"
    /\ m.editing
    /\ m' = [m EXCEPT !.outPath = IF m.editingField = "path" THEN m.editBuf ELSE @,
                      !.prompt = IF m.editingField = "prompt" THEN m.editBuf ELSE @,
                      !.editing = FALSE]
    /\ UNCHANGED <<mainPc, titleCmd, pickOrder, calls>>
    /\ SelectorFrame

EditKeyEscape ==
    /\ mainPc = "selector"
    /\ m.state # "stateURLInput"
    /\ m.editing
    /\ m' = [m EXCEPT !.editing = FALSE]
    /\ UNCHANGED <<mainPc, titleCmd, pickOrder, calls>>
    /\ SelectorFrame

\* ---- case tea.KeyMsg, menu mode: reached in every state but stateURLInput
\* when not editing (stateLoading included)
MenuMode == mainPc = "selector" /\ m.state # "stateURLInput" /\ ~m.editing

\* "ctrl+c", "q"
MenuKeyQuit ==
    /\ MenuMode
    /\ m' = [m EXCEPT !.quitting = TRUE]
    /\ mainPc' = "selectorQuit"
    /\ UNCHANGED <<titleCmd, pickOrder, calls>>
    /\ SelectorFrame

\* "up", "k"
MenuKeyUp ==
    /\ MenuMode
    /\ m.cursor > 0
    /\ m' = [m EXCEPT !.cursor = @ - 1]
    /\ UNCHANGED <<mainPc, titleCmd, pickOrder, calls>>
    /\ SelectorFrame

\* "down", "j"
MenuKeyDown ==
    /\ MenuMode
    /\ m.cursor < NumChoices - 1
    /\ m' = [m EXCEPT !.cursor = @ + 1]
    /\ UNCHANGED <<mainPc, titleCmd, pickOrder, calls>>
    /\ SelectorFrame

\* a toggle that checks Summary whether or not claude is available
MenuKeyToggle_AnyChoice ==
    /\ MenuMode
    /\ m' = [m EXCEPT !.checked[m.cursor] = ~@]
    /\ pickOrder' = IF m.checked[m.cursor]
                    THEN SelectSeq(pickOrder, LAMBDA c : c # m.cursor)
                    ELSE Append(pickOrder, m.cursor)
    /\ UNCHANGED <<mainPc, titleCmd, calls>>
    /\ SelectorFrame

\* " ", "x": toggle the checkbox, but not Summary when claude is unavailable
MenuKeyToggle ==
    /\ MenuMode
    /\ ~(m.cursor = 3 /\ ~claudeAvailable)
    /\ m' = [m EXCEPT !.checked[m.cursor] = ~@]
    /\ pickOrder' = IF m.checked[m.cursor]
                    THEN SelectSeq(pickOrder, LAMBDA c : c # m.cursor)
                    ELSE Append(pickOrder, m.cursor)
    /\ UNCHANGED <<mainPc, titleCmd, calls>>
    /\ SelectorFrame

\* an "enter" that submits whatever is checked, nothing included
MenuKeyEnter_NoCheck ==
    /\ MenuMode
    /\ m' = [m EXCEPT !.done = TRUE]
    /\ mainPc' = "selectorQuit"
    /\ UNCHANGED <<titleCmd, pickOrder, calls>>
    /\ SelectorFrame

\* "enter": submit if at least one option is selected
MenuKeyEnter ==
    /\ MenuMode
    /\ LET o == getOptions(m) IN o.Video \/ o.Audio \/ o.Subs \/ o.Summary
    /\ m' = [m EXCEPT !.done = TRUE]
    /\ mainPc' = "selectorQuit"
    /\ UNCHANGED <<titleCmd, pickOrder, calls>>
    /\ SelectorFrame

\* "e"
MenuKeyEditPath ==
    /\ MenuMode
    /\ m' = [m EXCEPT !.editing = TRUE, !.editingField = "path", !.editBuf = m.outPath]
    /\ UNCHANGED <<mainPc, titleCmd, pickOrder, calls>>
    /\ SelectorFrame

\* "p": only if claude is available
MenuKeyEditPrompt ==
    /\ MenuMode
    /\ claudeAvailable
    /\ m' = [m EXCEPT !.editing = TRUE, !.editingField = "prompt", !.editBuf = m.prompt]
    /\ UNCHANGED <<mainPc, titleCmd, pickOrder, calls>>
    /\ SelectorFrame

(***************************************************************************)
(* The multi-select program: the step orchestrator and main.               *)
(***************************************************************************)
\* the error of a failed external command (cmd.Run)
ToolError == "exit status 1"
\* the error of os.ReadDir on a directory that cannot be read
ReadDirError == "open: no such file or directory"

\* a status text that counts the steps from zero
getStatusText_ZeroBased(d) ==
    IF d.step >= Len(d.steps) THEN "Done!"
    ELSE LET stepName == d.steps[d.step + 1]
             total == Len(d.steps)
             desc == CASE stepName = "video" -> "Downloading video"
                       [] stepName = "audio" -> "Downloading audio"
                       [] stepName = "subs" -> "Downloading subtitles"
                       [] OTHER -> ""
         IN IF total > 1
            THEN desc \o " (" \o ToString(d.step) \o "/" \o ToString(total) \o ")..."
            ELSE desc \o "..."

getStatusText(d) ==
    IF d.step >= Len(d.steps) THEN "Done!"
    ELSE LET stepName == d.steps[d.step + 1]
             total == Len(d.steps)
             current == d.step + 1
             desc == CASE stepName = "video" -> "Downloading video"
                       [] stepName = "audio" -> "Downloading audio"
                       [] stepName = "subs" -> "Downloading subtitles"
                       [] OTHER -> ""
         IN IF total > 1
            THEN desc \o " (" \o ToString(current) \o "/" \o ToString(total) \o ")..."
            ELSE desc \o "..."

\* a step list in the order the boxes were checked
initialDownloadModel_PickOrder(o) ==
    LET name(c) == <<"video", "audio", "subs">>[c + 1]
        picked == SelectSeq(pickOrder, LAMBDA c : c < 3)
        steps == IF Len(picked) > 0 THEN [i \in 1..Len(picked) |-> name(picked[i])]
                 ELSE (IF o.Video THEN <<"video">> ELSE <<>>)
                      \o (IF o.Audio THEN <<"audio">> ELSE <<>>)
                      \o (IF o.Subs THEN <<"subs">> ELSE <<>>)
        d == [status |-> "", done |-> FALSE, err |-> "nil", steps |-> steps,
              step |-> 0, frame |-> 0]
    IN [d EXCEPT !.status = getStatusText(d)]

initialDownloadModel(o) ==
    LET steps == (IF o.Video THEN <<"video">> ELSE <<>>)
                 \o (IF o.Audio THEN <<"audio">> ELSE <<>>)
                 \o (IF o.Subs THEN <<"subs">> ELSE <<>>)
        d == [status |-> "", done |-> FALSE, err |-> "nil", steps |-> steps,
              step |-> 0, frame |-> 0]
    IN [d EXCEPT !.status = getStatusText(d)]

\* strings.LastIndex(s, "/"), 0-based, -1 if absent
LastIndexSlash(s) ==
    LET found == {i \in 1..Len(s) : Ch(s, i) = "/"}
    IN IF found = {} THEN -1
       ELSE (CHOOSE i \in found : \A j \in found : j <= i) - 1

\* the directory doDownloadSubs hands to processSubtitles
subsSearchDir(custom, od) ==
    LET lastSlash == LastIndexSlash(custom)
    IN IF custom # "" /\ lastSlash > 0 THEN SubSeq(custom, 1, lastSlash)
       ELSE DirOrDot(od)

\* what a step's goroutine can return
StepOutcomes(step) ==
    IF step = "subs" THEN {"nil", ToolError, ReadDirError} ELSE {"nil", ToolError}

\* os.Exit(code), after printing msg when there is an error
Exit(code, msg) ==
    /\ mainPc' = "exited"
    /\ exitCode' = code
    /\ reported' = msg

\* downloadSummary up to its first external invocation: the scratch directory
\* is made (or os.MkdirTemp fails) and the subtitle fetch is started
SummaryBegin ==
    \E made \in BOOLEAN :
        IF made
        THEN /\ tmpDir' = "created"
             /\ calls' = Append(calls, "summary-subs")
             /\ mainPc' = "summaryFetch"
             /\ UNCHANGED <<exitCode, reported>>
        ELSE /\ Exit(1, "failed to create temp dir: mkdir failed")
             /\ UNCHANGED <<tmpDir, calls>>

\* main up to p.Run() of the selector, or through the flags to the call of
\* runDownload
MainStart ==
    /\ mainPc = "start"
    /\ LET o == [Video |-> args.v, Audio |-> args.a, Subs |-> args.s,
                 Summary |-> args.sum,
                 Prompt |-> IF args.p # "" THEN args.p ELSE defaultPrompt]
           flagSet == o.Video \/ o.Audio \/ o.Subs \/ o.Summary
       IN IF ~path.ytdlp
          THEN /\ Exit(1, "yt-dlp not found in PATH")
               /\ UNCHANGED <<claudeAvailable, outputDir, url, opts, m, titleCmd, calls>>
          ELSE /\ claudeAvailable' = path.claude
               /\ outputDir' = args.o
               /\ url' = args.url
               /\ opts' = o
               /\ IF o.Summary /\ ~path.claude
                  THEN /\ Exit(1, "-sum requires claude cli")
                       /\ UNCHANGED <<m, titleCmd, calls>>
                  ELSE IF flagSet /\ args.url = ""
                  THEN /\ Exit(1, "Usage: tuber [flags] <url>")
                       /\ UNCHANGED <<m, titleCmd, calls>>
                  ELSE IF ~flagSet
                  THEN /\ m' = initialModel(args.url, args.o)
                       /\ titleCmd' = (args.url # "")
                       /\ calls' = IF args.url # "" THEN Append(calls, "title") ELSE calls
                       /\ mainPc' = "selector"
                       /\ UNCHANGED <<exitCode, reported>>
                  ELSE /\ mainPc' = "runDownload"
                       /\ UNCHANGED <<exitCode, reported, m, titleCmd, calls>>
    /\ UNCHANGED <<normVars, sanVars, fsVars, path, args, customOutPath, pickOrder, dm, startMsg,
                   inflight, doneMsg, tmpDir, subsDir>>

\* main after p.Run() of the selector returned; finalModel is read here for
\* the last time, and a title query still running is abandoned
MainAfterSelector ==
    /\ mainPc = "selectorQuit"
    /\ IF m.quitting
       THEN /\ Exit(0, "")
            /\ UNCHANGED <<url, opts, customOutPath>>
       ELSE /\ opts' = getOptions(m)
            /\ url' = m.url
            /\ customOutPath' = m.outPath
            /\ mainPc' = "runDownload"
            /\ UNCHANGED <<exitCode, reported>>
    /\ m' = NoModel
    /\ titleCmd' = FALSE
    /\ UNCHANGED <<normVars, sanVars, fsVars, path, args, claudeAvailable, outputDir,
                   pickOrder, dm, startMsg, inflight, doneMsg, calls, tmpDir, subsDir>>

\* runDownload(url, opts) up to its first blocking call
RunDownload ==
    /\ mainPc = "runDownload"
    /\ IF opts.Video \/ opts.Audio \/ opts.Subs
       THEN /\ dm' = initialDownloadModel(opts)
            /\ startMsg' = TRUE
            /\ mainPc' = "spinner"
            /\ UNCHANGED <<exitCode, reported, tmpDir, calls>>
       ELSE IF opts.Summary
       THEN SummaryBegin /\ UNCHANGED <<dm, startMsg>>
       ELSE Exit(0, "") /\ UNCHANGED <<dm, startMsg, tmpDir, calls>>
    /\ UNCHANGED <<normVars, sanVars, fsVars, path, args, claudeAvailable, outputDir,
                   customOutPath, url, opts, m, titleCmd, pickOrder, inflight, doneMsg,
                   subsDir>>

\* the command runCurrentStep() returns, started for model d: the step's
\* external invocation begins (or, past the last step, the done message is sent)
RunCurrentStep(d) ==
    IF d.step >= Len(d.steps)
    THEN /\ doneMsg' = "nil"
         /\ UNCHANGED <<inflight, calls>>
    ELSE /\ inflight' = d.steps[d.step + 1]
         /\ calls' = Append(calls, d.steps[d.step + 1])
         /\ doneMsg' = "none"

\* what every handler of the spinner program leaves alone
SpinnerFrame ==
    UNCHANGED <<normVars, sanVars, fsVars, path, args, exitCode, reported, claudeAvailable,
                outputDir, customOutPath, url, opts, m, titleCmd, pickOrder, tmpDir>>

\* case tea.KeyMsg: "ctrl+c"
DownloadKeyCtrlC ==
    /\ mainPc = "spinner"
    /\ mainPc' = "spinnerQuit"
    /\ UNCHANGED <<dm, startMsg, inflight, doneMsg, calls, subsDir>>
    /\ SpinnerFrame

\* a start message that is delivered again and again
DownloadStart_Redelivered ==
    /\ mainPc = "spinner"
    /\ startMsg
    /\ RunCurrentStep(dm)
    /\ UNCHANGED <<mainPc, dm, startMsg, subsDir>>
    /\ SpinnerFrame

\* case startDownloadMsg
DownloadStart ==
    /\ mainPc = "spinner"
    /\ startMsg
    /\ startMsg' = FALSE
    /\ RunCurrentStep(dm)
    /\ UNCHANGED <<mainPc, dm, subsDir>>
    /\ SpinnerFrame

\* the goroutine of a step returns: doDownloadVideo, doDownloadAudio or
\* doDownloadSubs (the fetch, then processSubtitles on the search directory);
\* its downloadDoneMsg reaches the spinner program if that is still running
StepReturns ==
    /\ inflight # "none"
    /\ mainPc # "exited"
    /\ \E err \in StepOutcomes(inflight) :
         /\ doneMsg' = IF mainPc = "spinner" THEN err ELSE doneMsg
         /\ subsDir' = IF inflight = "subs" /\ err # ToolError
                       THEN subsSearchDir(customOutPath, outputDir) ELSE subsDir
    /\ inflight' = "none"
    /\ UNCHANGED <<mainPc, dm, startMsg, calls>>
    /\ SpinnerFrame

\* a handler that goes on to the next step whatever the message's err
DownloadDone_IgnoreErr ==
    /\ mainPc = "spinner"
    /\ doneMsg # "none"
    /\ LET d == [dm EXCEPT !.step = @ + 1]
       IN IF d.step < Len(d.steps)
          THEN /\ dm' = [d EXCEPT !.status = getStatusText(d)]
               /\ RunCurrentStep(d)
               /\ UNCHANGED mainPc
          ELSE /\ dm' = [d EXCEPT !.done = TRUE]
               /\ mainPc' = "spinnerQuit"
               /\ doneMsg' = "none"
               /\ UNCHANGED <<inflight, calls>>
    /\ UNCHANGED <<startMsg, subsDir>>
    /\ SpinnerFrame

\* a handler that never sets done: after the last step it just waits
DownloadDone_NeverDone ==
    /\ mainPc = "spinner"
    /\ doneMsg # "none"
    /\ IF doneMsg # "nil"
       THEN /\ dm' = [dm EXCEPT !.err = doneMsg]
            /\ doneMsg' = "none"
            /\ UNCHANGED <<mainPc, inflight, calls>>
       ELSE LET d == [dm EXCEPT !.step = @ + 1]
            IN IF d.step < Len(d.steps)
               THEN /\ dm' = [d EXCEPT !.status = getStatusText(d)]
                    /\ RunCurrentStep(d)
                    /\ UNCHANGED mainPc
               ELSE /\ dm' = d
                    /\ doneMsg' = "none"
                    /\ UNCHANGED <<mainPc, inflight, calls>>
    /\ UNCHANGED <<startMsg, subsDir>>
    /\ SpinnerFrame

\* case downloadDoneMsg
DownloadDone ==
    /\ mainPc = "spinner"
    /\ doneMsg # "none"
    /\ IF doneMsg # "nil"
       THEN /\ dm' = [dm EXCEPT !.err = doneMsg, !.done = TRUE]
            /\ mainPc' = "spinnerQuit"
            /\ doneMsg' = "none"
            /\ UNCHANGED <<inflight, calls>>
       ELSE LET d == [dm EXCEPT !.step = @ + 1]
            IN IF d.step < Len(d.steps)
               THEN /\ dm' = [d EXCEPT !.status = getStatusText(d)]
                    /\ RunCurrentStep(d)
                    /\ UNCHANGED mainPc
               ELSE /\ dm' = [d EXCEPT !.done = TRUE]
                    /\ mainPc' = "spinnerQuit"
                    /\ doneMsg' = "none"
                    /\ UNCHANGED <<inflight, calls>>
    /\ UNCHANGED <<startMsg, subsDir>>
    /\ SpinnerFrame

\* a tick that also moves the step index on
DownloadTick_Advances ==
    /\ mainPc = "spinner"
    /\ dm' = [dm EXCEPT !.frame = (@ + 1) % SpinnerFrames,
                        !.step = IF @ < Len(dm.steps) THEN @ + 1 ELSE @]
    /\ UNCHANGED <<mainPc, startMsg, inflight, doneMsg, calls, subsDir>>
    /\ SpinnerFrame

\* case spinner.TickMsg: the spinner moves to its next frame
DownloadTick ==
    /\ mainPc = "spinner"
    /\ dm' = [dm EXCEPT !.frame = (@ + 1) % SpinnerFrames]
    /\ UNCHANGED <<mainPc, startMsg, inflight, doneMsg, calls, subsDir>>
    /\ SpinnerFrame

\* runWithSpinner returns dm.err; runDownload goes on to the summary
MainAfterSpinner ==
    /\ mainPc = "spinnerQuit"
    /\ IF dm.err # "nil"
       THEN Exit(1, dm.err) /\ UNCHANGED <<tmpDir, calls>>
       ELSE IF opts.Summary
       THEN SummaryBegin
       ELSE Exit(0, "") /\ UNCHANGED <<tmpDir, calls>>
    /\ UNCHANGED <<normVars, sanVars, fsVars, path, args, claudeAvailable, outputDir,
                   customOutPath, url, opts, m, titleCmd, pickOrder, dm, startMsg,
                   inflight, doneMsg, subsDir>>

\* a downloadSummary whose error returns leave the scratch directory behind
SummaryFetchReturns_KeepDir ==
    /\ mainPc = "summaryFetch"
    /\ \E res \in {"fetch failed", "unreadable dir", "no vtt", "unreadable vtt", "ok"} :
         IF res = "ok"
         THEN /\ calls' = Append(calls, "claude")
              /\ mainPc' = "summaryClaude"
              /\ UNCHANGED <<tmpDir, exitCode, reported>>
         ELSE /\ UNCHANGED tmpDir
              /\ Exit(1, CASE res = "fetch failed" ->
                                 "failed to download subtitles: " \o ToolError
                           [] res = "unreadable dir" -> ReadDirError
                           [] res = "no vtt" -> "no subtitles found for this video"
                           [] OTHER -> "failed to extract text: ReadFile")
              /\ UNCHANGED calls
    /\ UNCHANGED <<normVars, sanVars, fsVars, path, args, claudeAvailable, outputDir,
                   customOutPath, url, opts, m, titleCmd, pickOrder, dm, startMsg,
                   inflight, doneMsg, subsDir>>

\* downloadSummary after its subtitle fetch returned: the fetch failed, the
\* scratch directory cannot be read or holds no .vtt, extractText fails, or
\* the transcript is piped to claude; every return removes the directory
SummaryFetchReturns ==
    /\ mainPc = "summaryFetch"
    /\ \E res \in {"fetch failed", "unreadable dir", "no vtt", "unreadable vtt", "ok"} :
         IF res = "ok"
         THEN /\ calls' = Append(calls, "claude")
              /\ mainPc' = "summaryClaude"
              /\ UNCHANGED <<tmpDir, exitCode, reported>>
         ELSE /\ tmpDir' = "removed"
              /\ Exit(1, CASE res = "fetch failed" ->
                                 "failed to download subtitles: " \o ToolError
                           [] res = "unreadable dir" -> ReadDirError
                           [] res = "no vtt" -> "no subtitles found for this video"
                           [] OTHER -> "failed to extract text: ReadFile")
              /\ UNCHANGED calls
    /\ UNCHANGED <<normVars, sanVars, fsVars, path, args, claudeAvailable, outputDir,
                   customOutPath, url, opts, m, titleCmd, pickOrder, dm, startMsg,
                   inflight, doneMsg, subsDir>>

\* claude returned: downloadSummary returns its error, the directory is removed
SummaryClaudeReturns ==
    /\ mainPc = "summaryClaude"
    /\ tmpDir' = "removed"
    /\ \E err \in {"nil", ToolError} :
         IF err = "nil" THEN Exit(0, "") ELSE Exit(1, err)
    /\ UNCHANGED <<normVars, sanVars, fsVars, path, args, claudeAvailable, outputDir,
                   customOutPath, url, opts, m, titleCmd, pickOrder, dm, startMsg,
                   inflight, doneMsg, calls, subsDir>>

(***************************************************************************)
(* Spec: the multi-select program on every bounded command line.           *)
(* In Spec the operator does not type while a field is being edited (an    *)
(* edit is confirmed or cancelled as it stands).                           *)
(***************************************************************************)
Init ==
    /\ path \in [ytdlp : BOOLEAN, claude : BOOLEAN]
    /\ args \in ArgSets
    /\ mainPc = "start"
    /\ exitCode = -1
    /\ reported = ""
    /\ claudeAvailable = FALSE
    /\ outputDir = ""
    /\ customOutPath = ""
    /\ url = ""
    /\ opts = NoOptions
    /\ m = NoModel
    /\ titleCmd = FALSE
    /\ pickOrder = <<>>
    /\ dm = NoDownloadModel
    /\ startMsg = FALSE
    /\ inflight = "none"
    /\ doneMsg = "none"
    /\ calls = <<>>
    /\ tmpDir = "none"
    /\ subsDir = ""
    /\ NormIdle
    /\ SanIdle
    /\ FsIdle

Next ==
    \/ MainStart
    \/ UpdateTitleMsg
    \/ UpdateErrMsg
    \/ UrlKeyCtrlC
    \/ UrlKeyEnter
    \/ UrlKeyBackspace
    \/ UrlKeyRunes
    \/ EditKeyEnter
    \/ EditKeyEscape
    \/ MenuKeyQuit
    \/ MenuKeyUp
    \/ MenuKeyDown
    \/ MenuKeyToggle
    \/ MenuKeyEnter
    \/ MenuKeyEditPath
    \/ MenuKeyEditPrompt
    \/ MainAfterSelector
    \/ RunDownload
    \/ DownloadKeyCtrlC
    \/ DownloadStart
    \/ StepReturns
    \/ DownloadDone
    \/ DownloadTick
    \/ MainAfterSpinner
    \/ SummaryFetchReturns
    \/ SummaryClaudeReturns

Spec == Init /\ [][Next]_vars

(***************************************************************************)
(* LiveSpec: the program started with artifact flags (no selector), where  *)
(* every message of the spinner program is eventually handled and every    *)
(* external invocation eventually returns.                                 *)
(***************************************************************************)
LiveInit ==
    /\ Init
    /\ path.ytdlp
    /\ args.url # ""
    /\ args.v \/ args.a \/ args.s

LiveNext ==
    \/ MainStart
    \/ RunDownload
    \/ DownloadKeyCtrlC
    \/ DownloadStart
    \/ StepReturns
    \/ DownloadDone
    \/ DownloadTick
    \/ MainAfterSpinner
    \/ SummaryFetchReturns
    \/ SummaryClaudeReturns

LiveSpec ==
    /\ LiveInit
    /\ [][LiveNext]_vars
    /\ WF_vars(DownloadStart)
    /\ WF_vars(StepReturns)
    /\ WF_vars(DownloadDone)

(***************************************************************************)
(* PathSpec: the selector with typing in the path editor, on the command   *)
(* line `tuber u` without the claude cli, and the download that follows.   *)
(***************************************************************************)
\* runes the operator types into the edit buffer
EditRunes == {":", "/"}

\* case tea.KeyBackspace, editing
EditKeyBackspace ==
    /\ mainPc = "selector"
    /\ m.state # "stateURLInput"
    /\ m.editing
    /\ Len(m.editBuf) > 0
    /\ m' = [m EXCEPT !.editBuf = SubSeq(m.editBuf, 1, Len(m.editBuf) - 1)]
    /\ UNCHANGED <<mainPc, titleCmd, pickOrder, calls>>
    /\ SelectorFrame

\* case tea.KeyRunes, editing
EditKeyRunes ==
    /\ mainPc = "selector"
    /\ m.state # "stateURLInput"
    /\ m.editing
    /\ Len(m.editBuf) < MaxEditLen
    /\ \E r \in EditRunes : m' = [m EXCEPT !.editBuf = m.editBuf \o r]
    /\ UNCHANGED <<mainPc, titleCmd, pickOrder, calls>>
    /\ SelectorFrame

\* the -o argument doDownloadVideo, doDownloadAudio and doDownloadSubs build
getOutputPattern(ext) ==
    IF customOutPath # "" THEN customOutPath \o ext
    ELSE DirOrDot(outputDir) \o "/%(title)s" \o ext

PathInit ==
    /\ path = [ytdlp |-> TRUE, claude |-> FALSE]
    /\ args = [v |-> FALSE, a |-> FALSE, s |-> FALSE, sum |-> FALSE, p |-> "",
               o |-> "", url |-> "u"]
    /\ mainPc = "start"
    /\ exitCode = -1
    /\ reported = ""
    /\ claudeAvailable = FALSE
    /\ outputDir = ""
    /\ customOutPath = ""
    /\ url = ""
    /\ opts = NoOptions
    /\ m = NoModel
    /\ titleCmd = FALSE
    /\ pickOrder = <<>>
    /\ dm = NoDownloadModel
    /\ startMsg = FALSE
    /\ inflight = "none"
    /\ doneMsg = "none"
    /\ calls = <<>>
    /\ tmpDir = "none"
    /\ subsDir = ""
    /\ NormIdle
    /\ SanIdle
    /\ FsIdle

PathNext ==
    \/ MainStart
    \/ UpdateTitleMsg
    \/ UpdateErrMsg
    \/ EditKeyEnter
    \/ EditKeyEscape
    \/ EditKeyBackspace
    \/ EditKeyRunes
    \/ MenuKeyDown
    \/ MenuKeyToggle
    \/ MenuKeyEnter
    \/ MenuKeyEditPath
    \/ MainAfterSelector
    \/ RunDownload
    \/ DownloadStart
    \/ StepReturns
    \/ DownloadDone
    \/ MainAfterSpinner

PathSpec == PathInit /\ [][PathNext]_vars

(***************************************************************************)
(* FsSpec: the subtitle step (doDownloadSubs, processSubtitles) on a       *)
(* directory of caption and transcript files.                              *)
(***************************************************************************)
\* strings.TrimSuffix
TrimSuffix(s, suffix) ==
    IF HasSuffix(s, suffix) THEN SubSeq(s, 1, Len(s) - Len(suffix)) ELSE s

\* FsNames in the order os.ReadDir lists them (sorted by filename)
FsOrder == <<"a.txt", "a.vtt", "b.txt", "b.vtt">>

\* what the fetch tool writes into a caption file
FsCaption == "WEBVTT\n\n00:00:00.000 --> 00:00:02.000\nhello\n\n"

\* a caption file left in the directory by an earlier run
FsOldCaption == "WEBVTT\n\n00:00:00.000 --> 00:00:02.000\nold\n\n"

\* directories the step can start in: caption files present or not, readable
\* or not; transcript paths present or not, writable or not
FsDirs ==
    {d \in [FsNames -> [exists : BOOLEAN, readable : BOOLEAN, writable : BOOLEAN,
                        content : {"", FsOldCaption, "old"}]] :
        \A n \in FsNames :
            IF HasSuffix(n, ".vtt")
            THEN /\ d[n].writable
                 /\ IF d[n].exists THEN d[n].content = FsOldCaption
                    ELSE d[n] = NoFile(TRUE)
            ELSE IF d[n].exists THEN d[n].readable /\ d[n].content = "old"
                 ELSE d[n] = NoFile(d[n].writable)}

FsInit ==
    /\ fsDir \in FsDirs
    /\ fsBefore = fsDir
    /\ fsProduced = {}
    /\ fsPc = "fetch"
    /\ fsEntries = <<>>
    /\ fsIdx = 0
    /\ fsLog = <<>>
    /\ fsErr = "none"
    /\ NormIdle
    /\ SanIdle
    /\ ProgIdle

\* doDownloadSubs: yt-dlp --write-subs runs; it fails, or it writes caption
\* files (readable or not) into the directory
FsFetch ==
    /\ fsPc = "fetch"
    /\ \/ /\ fsErr' = ToolError
          /\ fsPc' = "done"
          /\ UNCHANGED <<fsDir, fsProduced>>
       \/ \E produced \in SUBSET {"a.vtt", "b.vtt"} :
          \E r \in [produced -> BOOLEAN] :
             /\ fsDir' = [n \in FsNames |->
                            IF n \in produced
                            THEN [exists |-> TRUE, readable |-> r[n], writable |-> TRUE,
                                  content |-> FsCaption]
                            ELSE fsDir[n]]
             /\ fsProduced' = produced
             /\ fsPc' = "readdir"
             /\ UNCHANGED fsErr
    /\ UNCHANGED <<fsBefore, fsEntries, fsIdx, fsLog, normVars, sanVars, progVars>>

\* entries, err := os.ReadDir(dir)
FsReadDir ==
    /\ fsPc = "readdir"
    /\ \E ok \in BOOLEAN :
         IF ok
         THEN /\ fsEntries' = SelectSeq(FsOrder, LAMBDA n : fsDir[n].exists)
              /\ fsIdx' = 1
              /\ fsPc' = "loop"
              /\ UNCHANGED fsErr
         ELSE /\ fsErr' = ReadDirError
              /\ fsPc' = "done"
              /\ UNCHANGED <<fsEntries, fsIdx>>
    /\ UNCHANGED <<fsDir, fsBefore, fsProduced, fsLog, normVars, sanVars, progVars>>

\* one pass of the loop of processSubtitles; the error os.Remove returns is
\* dropped, so the caption file is gone or still there
FsProcessEntry ==
    /\ fsPc = "loop"
    /\ fsIdx <= Len(fsEntries)
    /\ LET name == fsEntries[fsIdx]
           txt == TrimSuffix(name, ".vtt") \o ".txt"
       IN IF HasSuffix(name, ".vtt")
          THEN LET res == dedupeVTT([readable |-> fsDir[name].exists /\ fsDir[name].readable,
                                     content |-> fsDir[name].content],
                                    fsDir[txt].writable)
               IN IF res.err # "nil"
                  THEN UNCHANGED fsDir
                  ELSE \E removed \in BOOLEAN :
                         fsDir' = [fsDir EXCEPT
                                     ![txt] = [exists |-> TRUE, readable |-> TRUE,
                                               writable |-> TRUE, content |-> res.content],
                                     ![name] = IF removed THEN NoFile(TRUE) ELSE @]
          ELSE UNCHANGED fsDir
    /\ fsIdx' = fsIdx + 1
    /\ UNCHANGED <<fsBefore, fsProduced, fsPc, fsEntries, fsLog, fsErr, normVars, sanVars,
                   progVars>>

\* return nil, after the last entry
FsReturn ==
    /\ fsPc = "loop"
    /\ fsIdx > Len(fsEntries)
    /\ fsErr' = "nil"
    /\ fsPc' = "done"
    /\ UNCHANGED <<fsDir, fsBefore, fsProduced, fsEntries, fsIdx, fsLog, normVars, sanVars,
                   progVars>>

FsNext == FsFetch \/ FsReadDir \/ FsProcessEntry \/ FsReturn

FsSpec == FsInit /\ [][FsNext]_vars

(***************************************************************************)
(* The single-select program ytd (src/main.go): its modes and runDownload. *)
(***************************************************************************)
\* the modes that download files (ModeSummary runs the summary flow)
Modes == {"ModeVideo", "ModeAudio", "ModeSubs", "ModeAll"}

\* fmt.Errorf(prefix + ": %w", err)
Errorf(prefix, err) == prefix \o ": " \o err

\* runDownload with case ModeAll taking audio before video
runDownload_AudioFirst(mode, result) ==
    CASE mode = "ModeVideo" -> [calls |-> <<"video">>, err |-> result["video"]]
      [] mode = "ModeAudio" -> [calls |-> <<"audio">>, err |-> result["audio"]]
      [] mode = "ModeSubs" -> [calls |-> <<"subs">>, err |-> result["subs"]]
      [] mode = "ModeAll" ->
            IF result["audio"] # "nil"
            THEN [calls |-> <<"audio">>,
                  err |-> Errorf("audio download failed", result["audio"])]
            ELSE IF result["video"] # "nil"
            THEN [calls |-> <<"audio", "video">>,
                  err |-> Errorf("video download failed", result["video"])]
            ELSE IF result["subs"] # "nil"
            THEN [calls |-> <<"audio", "video", "subs">>,
                  err |-> Errorf("subtitle download failed", result["subs"])]
            ELSE [calls |-> <<"audio", "video", "subs">>, err |-> "nil"]

\* runDownload(url, mode) of ytd, result[step] being what downloadVideo,
\* downloadAudio or downloadSubs returns if called: the steps it calls, in
\* order, and the error it returns
runDownload(mode, result) ==
    CASE mode = "ModeVideo" -> [calls |-> <<"video">>, err |-> result["video"]]
      [] mode = "ModeAudio" -> [calls |-> <<"audio">>, err |-> result["audio"]]
      [] mode = "ModeSubs" -> [calls |-> <<"subs">>, err |-> result["subs"]]
      [] mode = "ModeAll" ->
            IF result["video"] # "nil"
            THEN [calls |-> <<"video">>,
                  err |-> Errorf("video download failed", result["video"])]
            ELSE IF result["audio"] # "nil"
            THEN [calls |-> <<"video", "audio">>,
                  err |-> Errorf("audio download failed", result["audio"])]
            ELSE IF result["subs"] # "nil"
            THEN [calls |-> <<"video", "audio", "subs">>,
                  err |-> Errorf("subtitle download failed", result["subs"])]
            ELSE [calls |-> <<"video", "audio", "subs">>, err |-> "nil"]

\* main of ytd after runDownload: os.Exit(1) on an error, else it returns
ytdExitCode(err) == IF err # "nil" THEN 1 ELSE 0

(***************************************************************************)
(* Claims about the normalizer (checked under NormSpec).                   *)
(***************************************************************************)
\* the lines of a transcript: its text split at the newlines Join put in
TranscriptLines(text) == IF text = "" THEN <<>> ELSE Split(text, "\n")

\* the cue block of the round-trip example and the file of three such blocks
RoundTripBlock ==
    "00:00:00.000 --> 00:00:03.000\n<00:00:01.000><c> hello</c>\n<00:00:02.000><c> world</c>\n\n"

RoundTripFiles ==
    {head \o Repeat(RoundTripBlock, 3) :
        head \in {"", "WEBVTT\nKind: captions\nLanguage: en\n\n"}}

\* C1: normalizing a file of three consecutive cue blocks, each holding the
\* text lines `<00:00:01.000><c> hello</c>` and `<00:00:02.000><c> world</c>`
\* after a cue-timing line, yields exactly the transcript "hello\nworld".
C1_RoundTrip ==
    (normPc = "extracted" /\ vttFile.readable /\ vttFile.content \in RoundTripFiles)
        => transcript = [text |-> "hello\nworld", err |-> "nil"]

\* every line is non-empty and no line occurs twice
LinesNonEmptyOnce(text) ==
    LET ls == TranscriptLines(text)
    IN /\ \A i \in 1..Len(ls) : ls[i] # ""
       /\ \A i, j \in 1..Len(ls) : i # j => ls[i] # ls[j]

\* C2: every line of the transcript produced by extractText, and of the .txt
\* written by dedupeVTT, is non-empty and occurs exactly once in the output,
\* however many times the caption file repeats it.
C2_LinesNonEmptyOnce ==
    /\ normPc \in {"extracted", "reextracted"} => LinesNonEmptyOnce(transcript.text)
    /\ normPc = "reextracted" => LinesNonEmptyOnce(again.text)
    /\ normPc = "written" => LinesNonEmptyOnce(txtFile.content)

\* a file that repeats a spoken line verbatim, three cues long, normalized
C2_Witness ==
    /\ normPc = "extracted"
    /\ vttFile.readable
    /\ Len(Split(vttFile.content, "\n")) > 8
    /\ transcript.text = "so today we talk about tubers"

\* C3: running the normalizer on its own output returns the identical text:
\* normalize(normalize(x)) = normalize(x) for every caption input x.
C3_Idempotent ==
    normPc = "reextracted" => again = transcript

\* a header or timing artifact, as the discard filter describes one
IsArtifact(line) ==
    \/ line = "WEBVTT"
    \/ line = "Kind: captions"
    \/ HasPrefix(line, "Language:")
    \/ HasPrefix(line, "NOTE")
    \/ Contains(line, "-->")
    \/ (Contains(line, ":") /\ (Contains(line, ".") \/ Contains(line, ","))
        /\ Len(line) < 30)

NoArtifactLine(text) ==
    \A i \in 1..Len(TranscriptLines(text)) : ~IsArtifact(TranscriptLines(text)[i])

\* C8: a readable caption file with empty content normalizes to the empty
\* transcript with no error, and dedupeVTT writes an empty .txt without error
\* (given a .txt path that can be written).
C8_EmptyFile ==
    (vttFile.readable /\ vttFile.content = "") =>
        /\ normPc = "extracted" => transcript = [text |-> "", err |-> "nil"]
        /\ (normPc = "written" /\ txtWritable) =>
              txtFile = [err |-> "nil", written |-> TRUE, content |-> ""]

C8_Witness ==
    /\ normPc = "extracted"
    /\ vttFile = [readable |-> TRUE, content |-> ""]
    /\ transcript.err = "nil"

\* C10: no line of a produced transcript equals WEBVTT or `Kind: captions`,
\* starts with `Language:` or NOTE, contains `-->`, or matches the timestamp
\* heuristic (colon, plus period or comma, length under 30).
C10_NoArtifactLines ==
    /\ normPc \in {"extracted", "reextracted"} => NoArtifactLine(transcript.text)
    /\ normPc = "written" => NoArtifactLine(txtFile.content)

(***************************************************************************)
(* Claims about the sanitizer (checked under SanSpec).                     *)
(***************************************************************************)
SanForbidden == {"/", "\\", ":", "*", "?", "\"", "<", ">", "|"}

\* what the contract says of one character
SanContractChar(c) ==
    IF c \in {"/", "\\", ":"} THEN "-"
    ELSE IF c \in {"*", "?", "\"", "<", ">", "|"} THEN ""
    ELSE c

RECURSIVE SanContract(_)
SanContract(s) ==
    IF s = "" THEN "" ELSE SanContractChar(Ch(s, 1)) \o SanContract(SubSeq(s, 2, Len(s)))

\* C4: sanitizeFilename replaces each `/`, `\` and `:` with `-`, removes each
\* `*`, `?`, `"`, `<`, `>`, `|` and passes every other character through in
\* order; its output contains none of `/ \ : * ? " < > |`.
C4_Sanitized ==
    sanPc = "done" =>
        /\ sanOut = SanContract(sanIn)
        /\ \A i \in 1..Len(sanOut) : Ch(sanOut, i) \notin SanForbidden

C4_Witness ==
    /\ sanPc = "done"
    /\ sanIn = "a:|"
    /\ sanOut = "a-"

(***************************************************************************)
(* Claims about the multi-select program (checked under Spec).             *)
(***************************************************************************)
StepNames == {"video", "audio", "subs"}

\* the file-based steps started so far, in the order they were started
StepCalls == SelectSeq(calls, LAMBDA c : c \in StepNames)

StepRank(step) == CASE step = "video" -> 1 [] step = "audio" -> 2 [] OTHER -> 3

StepRequested(o, step) ==
    CASE step = "video" -> o.Video [] step = "audio" -> o.Audio [] OTHER -> o.Subs

\* C5: whatever subset of {video, audio, subtitles} is requested and in
\* whatever order it was selected, the steps a run executes are requested
\* steps and occur in the order video, audio, subtitles, each at most once.
C5_FixedStepOrder ==
    /\ \A i \in 1..Len(StepCalls) : StepRequested(opts, StepCalls[i])
    /\ \A i, j \in 1..Len(StepCalls) :
         i < j => StepRank(StepCalls[i]) < StepRank(StepCalls[j])

\* subtitles were selected before video, and video ran before subtitles
C5_Witness ==
    /\ pickOrder = <<2, 0>>
    /\ StepCalls = <<"video", "subs">>
    /\ mainPc = "exited"
    /\ exitCode = 0

\* the external tool of the current step returned an error
StepFailed == doneMsg \notin {"none", "nil"} \/ dm.err # "nil"

\* the spinner program has ended
SpinnerOver == mainPc \in {"spinnerQuit", "summaryFetch", "summaryClaude", "exited"}

\* C6: once the external tool has returned an error for a step (or the
\* spinner program has ended), no further step is executed in that run.
C6_FailureShortCircuit ==
    [][(StepFailed \/ SpinnerOver) => StepCalls' = StepCalls]_vars

\* video, audio and subtitles were requested, the video step failed, and the
\* run ended with video the only step executed
C6_Witness ==
    /\ dm.steps = <<"video", "audio", "subs">>
    /\ dm.err = ToolError
    /\ StepCalls = <<"video">>
    /\ mainPc = "exited"
    /\ exitCode = 1

\* the word that names a step's stage in an error message
StageWord(step) ==
    CASE step = "video" -> "video" [] step = "audio" -> "audio" [] OTHER -> "subtitle"

\* C7: when a step fails, the error reported at the top level names the
\* stage that failed.
C7_ErrorNamesStage ==
    (mainPc = "exited" /\ dm.err # "nil")
        => Contains(reported, StageWord(dm.steps[dm.step + 1]))

Requested(o) == o.Video \/ o.Audio \/ o.Subs \/ o.Summary

\* the request as it stands: the flags of the command line, then the
\* checkboxes while the selector runs, then the options handed to runDownload
Request ==
    CASE mainPc = "start" ->
             [Video |-> args.v, Audio |-> args.a, Subs |-> args.s, Summary |-> args.sum,
              Prompt |-> ""]
      [] mainPc \in {"selector", "selectorQuit"} -> getOptions(m)
      [] OTHER -> opts

InDownloadStage ==
    mainPc \in {"runDownload", "spinner", "spinnerQuit", "summaryFetch", "summaryClaude"}

\* C9 as stated: while all four artifact flags are false no external tool has
\* been run and the download stage is not entered.
C9_NoToolWhileAllFalse ==
    ~Requested(Request) => (calls = <<>> /\ ~InDownloadStage)

\* C9, amended: while all four artifact flags are false the download stage is
\* not entered, no step and no summary has been started, and the only
\* external tool run is the selector's title query.
C9_NoDownloadWhileAllFalse ==
    ~Requested(Request) =>
        /\ ~InDownloadStage
        /\ \A i \in 1..Len(calls) : calls[i] = "title"
        /\ dm = NoDownloadModel
        /\ tmpDir = "none"

\* the selector is in its menu with nothing checked and the title query answered
C9_Witness ==
    /\ mainPc = "selector"
    /\ m.state = "stateMenu"
    /\ ~Requested(getOptions(m))
    /\ m.title # ""
    /\ calls = <<"title">>

(***************************************************************************)
(* Claims about the output path (checked under PathSpec).                  *)
(***************************************************************************)
\* the final path segment of p
Stem(p) == SubSeq(p, LastIndexSlash(p) + 2, Len(p))

\* the stem of the output path handed to the download steps
OutputStem == Stem(getOutputPattern(""))

\* C11: whenever an output path is handed to a download step, its stem holds
\* none of the characters / \ : * ? " < > |.
C11_StemSanitized ==
    inflight \in StepNames =>
        \A i \in 1..Len(OutputStem) : Ch(OutputStem, i) \notin SanForbidden

(***************************************************************************)
(* Claims about the run as a whole (checked under Spec).                   *)
(***************************************************************************)
\* the summary flow has started its subtitle fetch
SummaryStarted == \E i \in 1..Len(calls) : calls[i] = "summary-subs"

\* every step of the step list finished without error
AllStepsSucceeded == dm.err = "nil" /\ dm.step = Len(dm.steps)

\* C12: the summary flow starts only after every requested file-based step
\* has completed successfully (immediately when none was requested).
C12_SummaryAfterSteps ==
    SummaryStarted =>
        /\ opts.Summary
        /\ AllStepsSucceeded
        /\ \A s \in StepNames :
             StepRequested(opts, s) => \E i \in 1..Len(dm.steps) : dm.steps[i] = s

\* ctrl+c ended the spinner program: it quit without setting done
Interrupted == SpinnerOver /\ dm.steps # <<>> /\ ~dm.done

\* C17: after ctrl+c was pressed with a download step in flight, no further
\* download step and no summary flow is started.
C17_InterruptEndsRun ==
    [][(Interrupted /\ inflight \in StepNames) => calls' = calls]_vars

\* claude or the summary flow's subtitle fetch has been started
SummaryToolUsed ==
    \E i \in 1..Len(calls) : calls[i] \in {"summary-subs", "claude"}

FsListedCaptions ==
    {fsEntries[i] : i \in {j \in 1..Len(fsEntries) : HasSuffix(fsEntries[j], ".vtt")}}

\* the transcript path of a caption file
FsTxtOf(n) == TrimSuffix(n, ".vtt") \o ".txt"

\* a failed conversion is skipped for that file only: the step returns nil
\* and every listed caption file still in place is one that could not be
\* read or whose transcript could not be written
FsSkippedPerFile ==
    /\ fsErr = "nil"
    /\ \A n \in FsListedCaptions :
         fsDir[n].exists => (~fsDir[n].readable \/ ~fsDir[FsTxtOf(n)].writable)

\* every caption file whose conversion failed has a warning naming it
FsFailuresWarned ==
    \A n \in FsListedCaptions :
        fsDir[n].exists => \E i \in 1..Len(fsLog) : Contains(fsLog[i], n)

\* C15: when the subtitle step has listed its directory and returned, each
\* caption file that could not be normalized was logged as a warning and
\* skipped, the others were converted, and the step did not fail.
C15_FailureWarnedAndSkipped ==
    (fsPc = "done" /\ fsErr \notin {ToolError, ReadDirError})
        => (FsSkippedPerFile /\ FsFailuresWarned)

\* C14: the summary flow's scratch directory exists only while the flow
\* runs: it is made once, by the flow, and it has been removed whenever the
\* process has exited, on every exit path of the flow.
C14_ScratchDirRemoved ==
    /\ mainPc = "exited" => tmpDir \in {"none", "removed"}
    /\ tmpDir = "created" => mainPc \in {"summaryFetch", "summaryClaude"}
    /\ tmpDir # "none" => SummaryStarted

\* the flow ended because no caption file was found, and the directory is gone
C14_Witness ==
    /\ mainPc = "exited"
    /\ exitCode = 1
    /\ reported = "no subtitles found for this video"
    /\ tmpDir = "removed"

\* every requested step finished without error and, if a summary was
\* requested, the summary flow ran to the end without error
RunSucceeded ==
    /\ Requested(opts)
    /\ reported = ""
    /\ AllStepsSucceeded
    /\ \A s \in StepNames :
         StepRequested(opts, s) => \E i \in 1..Len(dm.steps) : dm.steps[i] = s
    /\ opts.Summary => (tmpDir = "removed" /\ calls[Len(calls)] = "claude")

\* the operator quit the selector: nothing was requested and nothing was run
\* but the title query
QuitFromSelector ==
    /\ ~Requested(opts)
    /\ dm = NoDownloadModel
    /\ \A i \in 1..Len(calls) : calls[i] = "title"

\* C16: the process exits with status 0 only after a successful run or a quit
\* from the selector, and with a non-zero status after every error.
C16_ExitStatus ==
    mainPc = "exited" =>
        /\ exitCode \in {0, 1}
        /\ exitCode = 0 => (RunSucceeded \/ QuitFromSelector)
        /\ (reported # "" \/ dm.err # "nil") => exitCode = 1

\* C18: a step is started only by the spinner program, only while no step's
\* external invocation is in flight, and only when the done messages of all
\* earlier steps have been processed (the step index equals their number).
C18_StepsSequential ==
    [][StepCalls' # StepCalls =>
          /\ mainPc = "spinner"
          /\ inflight = "none"
          /\ Len(StepCalls') = Len(StepCalls) + 1
          /\ dm'.step = Len(StepCalls)
          /\ inflight' = dm'.steps[dm'.step + 1]]_vars

\* the second of three steps is in flight after the first one's done
\* message was processed
C18_Witness ==
    /\ mainPc = "spinner"
    /\ dm.steps = <<"video", "audio", "subs">>
    /\ dm.step = 1
    /\ inflight = "audio"
    /\ StepCalls = <<"video", "audio">>

(***************************************************************************)
(* Claims about the orchestrator's progress (checked under LiveSpec).      *)
(***************************************************************************)
\* the spinner program's terminal states
Completed == dm.done /\ dm.err = "nil" /\ dm.step = Len(dm.steps)
Failed == dm.done /\ dm.err # "nil" /\ dm.step < Len(dm.steps)

\* once terminal the orchestrator stays as it is and starts no step
TerminalIsStable == [][dm.done => (dm' = dm /\ StepCalls' = StepCalls)]_vars

RequestedSteps(o) ==
    SelectSeq(<<"video", "audio", "subs">>, LAMBDA s : StepRequested(o, s))

\* C20: once constructed, the orchestrator's step list is the requested
\* artifacts in the order video, audio, subtitles and never changes;
\* 0 <= step <= len(steps); the step index starts at 0 and changes only by
\* +1, only when a done message without error is processed.
C20_StepIndex ==
    /\ [](dm # NoDownloadModel =>
            /\ dm.steps = RequestedSteps(opts)
            /\ dm.step \in 0..Len(dm.steps))
    /\ [][/\ dm'.steps # dm.steps => (dm = NoDownloadModel /\ dm'.step = 0)
          /\ dm'.step # dm.step =>
                /\ dm'.step = dm.step + 1
                /\ mainPc = "spinner"
                /\ doneMsg = "nil"
                /\ doneMsg' # "nil"]_vars

\* the third of three steps is running: two done messages were processed
C20_Witness ==
    /\ mainPc = "spinner"
    /\ dm.steps = <<"video", "audio", "subs">>
    /\ dm.step = 2
    /\ dm.frame = 1
    /\ inflight = "subs"

(***************************************************************************)
(* Claims about the status display (checked under Spec).                   *)
(***************************************************************************)
\* the word the status text uses for a step
ArtifactWord(step) ==
    CASE step = "video" -> "video" [] step = "audio" -> "audio" [] OTHER -> "subtitles"

\* the status text the claim gives for step i (0-based) of the list steps
StatusOfStep(steps, i) ==
    "Downloading " \o ArtifactWord(steps[i + 1])
        \o (IF Len(steps) > 1
            THEN " (" \o <<"1", "2", "3">>[i + 1] \o "/"
                      \o <<"1", "2", "3">>[Len(steps)] \o ")..."
            ELSE "...")

\* C21: while a step's external invocation runs, it is the step at the step
\* index, the displayed status is "Downloading <artifact> (i+1/n)..." (without
\* the counter when n = 1) for that step, and 1 <= i+1 <= n.
C21_StatusOfRunningStep ==
    (inflight \in StepNames /\ mainPc = "spinner") =>
        /\ dm.step + 1 \in 1..Len(dm.steps)
        /\ inflight = dm.steps[dm.step + 1]
        /\ ~dm.done
        /\ dm.status = StatusOfStep(dm.steps, dm.step)

\* the second of two steps is running and the display says so
C21_Witness ==
    /\ mainPc = "spinner"
    /\ inflight = "subs"
    /\ dm.steps = <<"audio", "subs">>
    /\ dm.status = "Downloading subtitles (2/2)..."

(***************************************************************************)
(* Claims about the normalizer's stages (checked under NormSpec).          *)
(***************************************************************************)
\* the trimmed lines of the caption file
InputLines ==
    LET raw == Split(vttFile.content, "\n")
    IN [i \in 1..Len(raw) |-> TrimSpace(raw[i])]

\* the discard rule as the claim words it, with the line's length measured
\* by len(line, unit)
DiscardRule(line, short) ==
    \/ line = ""
    \/ line = "WEBVTT"
    \/ line = "Kind: captions"
    \/ HasPrefix(line, "Language:")
    \/ HasPrefix(line, "NOTE")
    \/ Contains(line, "-->")
    \/ /\ Contains(line, ":")
       /\ Contains(line, ".") \/ Contains(line, ",")
       /\ short

\* a line after tag stripping and trimming
Cleaned(line) == TrimSpace(stripTags(line))

\* what extractText made of a readable file agrees with a discard rule: the
\* filter discards exactly the lines the rule names, a file of discarded
\* lines gives the empty transcript, and every other line with text left
\* after tag stripping is in the transcript
FilterAgrees(rule(_)) ==
    (normPc = "extracted" /\ vttFile.readable) =>
        LET kept == {i \in 1..Len(InputLines) : ~rule(InputLines[i])}
            out == TranscriptLines(transcript.text)
        IN /\ \A i \in 1..Len(InputLines) : SkipLine(InputLines[i]) <=> rule(InputLines[i])
           /\ \A i \in kept :
                Cleaned(InputLines[i]) # ""
                    => \E j \in 1..Len(out) : out[j] = Cleaned(InputLines[i])
           /\ \A j \in 1..Len(out) : \E i \in kept : out[j] = Cleaned(InputLines[i])

\* C22 as stated: a trimmed line is discarded iff it is empty, a header
\* line, a cue-timing line, or holds a colon and (a period or a comma) and is
\* shorter than 30 characters.
C22_DiscardRuleChars ==
    FilterAgrees(LAMBDA line : DiscardRule(line, Len(line) < 30))

\* C22, amended: the same rule with the length counted in bytes: a line with
\* a colon and (a period or a comma) is discarded iff it has fewer than 30
\* bytes of UTF-8.
C22_DiscardRuleBytes ==
    FilterAgrees(LAMBDA line : DiscardRule(line, ByteLen(line) < 30))

\* the short spoken line was discarded, a plain line was kept
C22_Witness ==
    /\ normPc = "extracted"
    /\ vttFile = [readable |-> TRUE, content |-> "4:30, right?\nhello"]
    /\ transcript.text = "hello"

\* position i of s lies in a tag: some `<` at or before i has no `>` between
\* it and i (so the tag runs from the `<` up to and including the next `>`)
InTagAt(s, i) ==
    \E j \in 1..i : Ch(s, j) = "<" /\ \A k \in j..(i - 1) : Ch(s, k) # ">"

\* the characters of s[lo..hi] outside every tag, in order
RECURSIVE OutsideTags(_, _, _)
OutsideTags(s, lo, hi) ==
    IF lo > hi THEN ""
    ELSE IF lo = hi THEN (IF InTagAt(s, lo) THEN "" ELSE Ch(s, lo))
    ELSE LET mid == (lo + hi) \div 2
         IN OutsideTags(s, lo, mid) \o OutsideTags(s, mid + 1, hi)

\* C23: for every line that reaches tag stripping, stripTags removes exactly
\* the characters from each `<` up to and including the next `>` and keeps
\* all others in order; its output holds no `<`; stripping twice is stripping
\* once; a line of markup only is not emitted.
C23_StripTagsExact ==
    (normPc = "extracted" /\ vttFile.readable) =>
        LET out == TranscriptLines(transcript.text)
        IN \A i \in 1..Len(InputLines) :
             LET line == InputLines[i]
                 stripped == stripTags(line)
             IN /\ stripped = OutsideTags(line, 1, Len(line))
                /\ ~Contains(stripped, "<")
                /\ stripTags(stripped) = stripped
                /\ (~SkipLine(line) /\ TrimSpace(stripped) # "")
                      => \E j \in 1..Len(out) :
                            out[j] = TrimSpace(OutsideTags(line, 1, Len(line)))
                /\ \A j \in 1..Len(out) : out[j] # ""

\* the cleaned lines of the caption file, by input position: the lines the
\* filter keeps, tag-stripped and trimmed, that still hold text
CleanedAt == [i \in 1..Len(InputLines) |->
                IF SkipLine(InputLines[i]) THEN "" ELSE Cleaned(InputLines[i])]

\* the position at which a cleaned line first occurs in the input
FirstAt(line) ==
    CHOOSE i \in 1..Len(InputLines) :
        /\ CleanedAt[i] = line
        /\ \A k \in 1..(i - 1) : CleanedAt[k] # line

\* text is the distinct cleaned lines of the input in the order of their
\* first occurrence, one "\n" between two lines and none after the last
FirstOccurrences(text) ==
    LET out == TranscriptLines(text)
        distinct == {CleanedAt[i] : i \in 1..Len(InputLines)} \ {""}
    IN /\ {out[j] : j \in 1..Len(out)} = distinct
       /\ Len(out) = Cardinality(distinct)
       /\ \A j, k \in 1..Len(out) : j < k => FirstAt(out[j]) < FirstAt(out[k])
       /\ text = Join(out, "\n")
       /\ ~HasSuffix(text, "\n")

\* C24: the transcript extractText returns for a readable file, and the .txt
\* dedupeVTT writes, hold exactly the distinct cleaned lines of the input,
\* compared as exact strings, ordered by first occurrence, joined by single
\* newlines with no trailing newline.
C24_FirstOccurrencesInOrder ==
    /\ (normPc = "extracted" /\ vttFile.readable) => FirstOccurrences(transcript.text)
    /\ (normPc = "written" /\ txtFile.written) => FirstOccurrences(txtFile.content)

\* a .txt written from a file whose cues repeat: two different lines, the
\* first of them occurring again later, kept once each in input order
C24_Witness ==
    /\ normPc = "written"
    /\ txtFile.written
    /\ \E i, j, k \in 1..Len(InputLines) :
            /\ i < j /\ j < k
            /\ CleanedAt[i] # "" /\ CleanedAt[j] # ""
            /\ CleanedAt[i] # CleanedAt[j]
            /\ CleanedAt[k] = CleanedAt[i]
    /\ FirstOccurrences(txtFile.content)

\* the directory the claim names for the search: everything before the last
\* "/" of the custom output stem if it holds one, else the output directory,
\* or "." when none is configured
ClaimedSearchDir ==
    LET lastSlash == LastIndexSlash(customOutPath)
    IN IF lastSlash >= 0 THEN SubSeq(customOutPath, 1, lastSlash)
       ELSE DirOrDot(outputDir)

\* doDownloadSubs has called processSubtitles (its directory is never "")
SubsSearched == subsDir # ""

\* C25: the directory searched for the produced subtitle files is everything
\* before the last path separator of the custom output stem when the stem
\* holds a separator, at any position, a leading one included, and otherwise
\* the configured output directory, or the current directory.
C25_SearchDirFromStem ==
    SubsSearched => subsDir = ClaimedSearchDir

\* the caption file names
FsVttNames == {n \in FsNames : HasSuffix(n, ".vtt")}

\* the loop of processSubtitles takes the entry n in this step
FsTakes(n) ==
    /\ fsPc = "loop"
    /\ fsIdx <= Len(fsEntries)
    /\ fsEntries[fsIdx] = n
    /\ fsIdx' = fsIdx + 1

\* dedupeVTT on the caption file n would read it and write its transcript
FsConverts(n) ==
    dedupeVTT([readable |-> fsDir[n].exists /\ fsDir[n].readable,
               content |-> fsDir[n].content],
              fsDir[FsTxtOf(n)].writable).err = "nil"

\* a caption file goes away only in the step that converted it
FsDeletedOnlyAfterConversion ==
    \A n \in FsVttNames :
        (fsPc # "fetch" /\ fsDir[n].exists /\ ~fsDir'[n].exists)
            => FsTakes(n) /\ FsConverts(n) /\ fsDir'[FsTxtOf(n)].exists

\* a caption file whose conversion failed is left as it was
FsFailedLeftInPlace ==
    \A n \in FsVttNames : (FsTakes(n) /\ ~FsConverts(n)) => fsDir'[n] = fsDir[n]

\* a converted caption file has its transcript and is itself gone
FsConvertedRemoved ==
    \A n \in FsVttNames :
        (FsTakes(n) /\ FsConverts(n))
            => fsDir'[FsTxtOf(n)].exists /\ ~fsDir'[n].exists

\* C26: a .vtt file is deleted only after its conversion succeeded: a file
\* that cannot be read, or whose transcript cannot be written, is left in
\* place, and after a successful conversion the .txt exists and the .vtt has
\* been removed.
C26_VttRemovedAfterConversion ==
    [][FsDeletedOnlyAfterConversion /\ FsFailedLeftInPlace /\ FsConvertedRemoved]_vars

(***************************************************************************)
(* The multi-select program against the single-select one (under Spec).    *)
(***************************************************************************)
\* the flag set that corresponds to a single-select mode
FlagSet(mode) ==
    CASE mode = "ModeVideo" -> {"video"}
      [] mode = "ModeAudio" -> {"audio"}
      [] mode = "ModeSubs" -> {"subs"}
      [] mode = "ModeAll" -> {"video", "audio", "subs"}

\* the options of the run are that flag set and nothing else
RunsAs(mode) ==
    /\ {s \in StepNames : StepRequested(opts, s)} = FlagSet(mode)
    /\ ~opts.Summary

\* the patterns of step results under which the spinner program's run went
\* as it did: every step it started returned nil, except that the last one
\* returned dm.err when the run failed
ObservedResults ==
    {r \in [StepNames -> {"nil", ToolError, ReadDirError}] :
        /\ \A s \in StepNames : r[s] \in StepOutcomes(s)
        /\ \A i \in 1..Len(StepCalls) :
              r[StepCalls[i]] = IF i = Len(StepCalls) THEN dm.err ELSE "nil"}

\* C27: run with the flag set of a single-select mode, the multi-select
\* program performs the steps the single-select runDownload performs, in the
\* same order, and under every pattern of step failures it stops after the
\* same step, failing or succeeding as the single-select program does (as
\* the orchestrator's result and as the exit status).
C27_SameStepsAsSingleSelect ==
    \A mode \in Modes :
        (RunsAs(mode) /\ dm.done) =>
            /\ ObservedResults # {}
            /\ \A r \in ObservedResults :
                  LET single == runDownload(mode, r)
                  IN /\ StepCalls = single.calls
                     /\ (dm.err = "nil") <=> (single.err = "nil")
                     /\ mainPc = "exited" => exitCode = ytdExitCode(single.err)

\* all three artifacts requested, video fetched, the audio step failed: the
\* run stopped after audio and exited with status 1, as ModeAll does
C27_Witness ==
    /\ RunsAs("ModeAll")
    /\ dm.done
    /\ StepCalls = <<"video", "audio">>
    /\ dm.err = ToolError
    /\ mainPc = "exited"
    /\ exitCode = 1

\* the files that were in the directory before the step started and that
\* the fetch tool did not write in this run
FsOldFiles == {n \in FsNames : fsBefore[n].exists /\ n \notin fsProduced}

\* C28: the subtitle step converts and deletes only caption files the fetch
\* tool produced in the current run: every file that was in the searched
\* directory before the step started, other .vtt files and existing .txt
\* files included, is as it was when the step has returned.
C28_OldFilesUntouched ==
    fsPc = "done" => \A n \in FsOldFiles : fsDir[n] = fsBefore[n]

(***************************************************************************)
(* Claims about the selector and the title fetch (checked under PathSpec). *)
(***************************************************************************)
\* the selector is waiting for the result of fetchTitle
TitleLoading == mainPc = "selector" /\ m.state = "stateLoading"

\* this step handles the titleMsg or errMsg the title fetch sent
TitleResultHandled == TitleLoading /\ titleCmd /\ ~titleCmd'

\* while the title is loading no key toggles a selection, opens or confirms
\* an edit, or submits
NoMenuActionWhileLoading ==
    TitleLoading =>
        /\ m'.checked = m.checked
        /\ m'.editing = m.editing
        /\ m'.editBuf = m.editBuf
        /\ m'.done = m.done
        /\ TitleResultHandled \/ m'.outPath = m.outPath

\* the title result replaces the fallback path initialModel set and no other
\* one: a path the operator has confirmed stays
TitleKeepsConfirmedPath ==
    TitleResultHandled =>
        \/ m.outPath = initialModel(m.url, outputDir).outPath
        \/ m'.outPath = m.outPath

\* C29: in the selector no selection toggle, path edit or submit happens
\* while the title fetch is still loading, and a path the operator has
\* confirmed is not overwritten by the title result when it arrives, so the
\* download uses the confirmed value.
C29_MenuOnlyAfterTitle ==
    [][NoMenuActionWhileLoading /\ TitleKeepsConfirmedPath]_vars

====
